---- MODULE Spec2Model ----
(***************************************************************************)
(* ChainBridge (src/python/chainbridge.py): the retrying REST query client *)
(* APIHandler, the BitcoinAPI facade built on it, the ledger entry         *)
(* CBTransaction, Wallet, CBDocument and the three containers.             *)
(*                                                                         *)
(* Python values are records tagged with their type, so that a field that  *)
(* holds either None or a value stays comparable.                          *)
(***************************************************************************)
EXTENDS Integers, Sequences, FiniteSets, TLC

VARIABLES
    api,      \* the APIHandler / BitcoinAPI instance: its private fields
    op,       \* the public method being executed, "idle" before the call
    q,        \* the activation of APIHandler.query_ of the running method
    q2,       \* a second activation of query_, run against a varied server
    frame,    \* locals of get_address_transactions: i, pages_count, result
    outcome,  \* how the public method ended: pending, a return or a raise
    txn,      \* a call of CBTransaction(...): its arguments and what it gave
    wallet,   \* a Wallet: its private fields and how the last call on it ended
    robj,     \* a ResponseObject held by a caller, and the last call on it
    doc,      \* a call of CBDocument(...) and what it gave
    cont,     \* a WalletContainer, TransactionContainer or UtxoContainer
    handlers  \* two APIHandler instances and the list objects they refer to

vars ==
    <<api, op, q, q2, frame, outcome, txn, wallet, robj, doc, cont,
      handlers>>

----------------------------------------------------------------------------
(* Bounds of the model                                                     *)

MaxNegTryCount == 1     \* try_count is drawn from -MaxNegTryCount .. MaxTryCount
MaxTryCount == 3        \* largest try_count handed to the handler
MaxTryDelay == 1        \* try_delay is drawn from 0 .. MaxTryDelay (ms)
MaxPages == 3           \* largest pagesTotal a server answer carries
MaxTwinTryCount == 3    \* largest try_count of the two-run specification
MaxFacadeTryCount == 2  \* largest try_count of the facade specification
MaxAmount == 2          \* largest single amount of a ledger entry, in satoshi
MaxAmounts == 2         \* longest list of inputs or of outputs
MaxConfirmations == 7   \* largest confirmation count of a ledger entry
MaxLimit == 10          \* largest confirmation limit handed to an entry
MaxItems == 3           \* longest container the model grows
MaxInitial == 2         \* longest list handed to a container's constructor
MaxHandlerTryCount == 2 \* try_count of the two handlers side by side

----------------------------------------------------------------------------
(* Program constants                                                       *)

DEFAULT_TRY_COUNT == 5
DEFAULT_TRY_DELAY == 5000
HTTP_OK == 200
HTTP_BAD_REQUEST == 400
DEFAULT_CONFIRMATION_LIMIT == 6
WALLET_INSTANTIATED == 0
WALLET_VALID == 1
WALLET_EDITABLE == 2

----------------------------------------------------------------------------
(* Python values                                                           *)

None == [type |-> "NoneType"]

PyInt(n) == [type |-> "int", val |-> n]

\* an object the behaviour does not make: no Wallet, no ResponseObject in
\* a caller's hands, no call of CBDocument(...), no container, no second
\* handler
absent == [pc |-> "none"]

\* no call of CBTransaction(...)
txn_none ==
    [pc |-> "none", args |-> None, obj |-> None, error |-> "none",
     set |-> None]

----------------------------------------------------------------------------
(* ResponseObject                                                          *)

\* ResponseObject.code setter: write once, PermissionError afterwards.
ResponseObject_set_code(obj, newcode) ==
    IF obj.code = None
    THEN [obj EXCEPT !.code = newcode]
    ELSE [obj EXCEPT !.error = "PermissionError"]

\* variant: the guard is inverted, a first assignment is refused
ResponseObject_set_content_inverted(obj, newcontent) ==
    IF obj.content # None
    THEN [obj EXCEPT !.content = newcontent]
    ELSE [obj EXCEPT !.error = "PermissionError"]

\* ResponseObject.content setter: write once, PermissionError afterwards.
ResponseObject_set_content(obj, newcontent) ==
    IF obj.content = None
    THEN [obj EXCEPT !.content = newcontent]
    ELSE [obj EXCEPT !.error = "PermissionError"]

\* ResponseObject.__init__: both fields start as None and are then assigned
\* through the setters.
ResponseObject(code, content) ==
    LET fresh == [type |-> "ResponseObject", code |-> None, content |-> None,
                  error |-> "none"]
    IN ResponseObject_set_content(ResponseObject_set_code(fresh, code), content)

----------------------------------------------------------------------------
(* The server: what one requests.get() can give                            *)

\* A body that is not JSON: response.json() raises on it.
BadBody == [json |-> FALSE, value |-> None]

\* The body whose text is the JSON serialisation of value v.
JsonBody(v) == [json |-> TRUE, value |-> v]

\* The JSON document of one page of address transactions.
PageDict(n, txs) == [type |-> "dict", pagesTotal |-> n, txs |-> txs]

\* requests.get raised (connection error, timeout, ...).
TransportError == [raised |-> TRUE, status_code |-> 0, body |-> BadBody]

HttpResponse(status, body) ==
    [raised |-> FALSE, status_code |-> status, body |-> body]

\* response.json(): the parsed value, or an exception on a malformed body.
\* The JSON text "null" parses to None.
json(response) ==
    IF response.body.json
    THEN [raised |-> FALSE, value |-> response.body.value]
    ELSE [raised |-> TRUE, value |-> None]

\* time.sleep(secs) raises ValueError on a negative length.
sleep_raises(secs) == secs.num < 0

----------------------------------------------------------------------------
(* APIHandler                                                              *)

\* try_delay setter: the delay is kept in seconds, try_delay / 1000.
try_delay_setter(self, try_delay) ==
    [self EXCEPT !.try_delay = [num |-> try_delay, den |-> 1000]]

\* try_count setter
try_count_setter(self, try_count) ==
    [self EXCEPT !.try_count = try_count]

\* returncode_list setter; the list is only ever tested for membership
returncode_list_setter(self, newlist) ==
    [self EXCEPT !.returncode_list = newlist]

\* APIHandler.__init__; try_count and try_delay are None or a PyInt
APIHandler__init__(cls, try_count, try_delay, returncode_list) ==
    LET blank == [cls |-> cls, try_count |-> 0,
                  try_delay |-> [num |-> 0, den |-> 1000],
                  returncode_list |-> {}]
        s1 == IF try_count = None
              THEN try_count_setter(blank, DEFAULT_TRY_COUNT)
              ELSE try_count_setter(blank, try_count.val)
        s2 == IF try_delay = None
              THEN try_delay_setter(s1, DEFAULT_TRY_DELAY)
              ELSE try_delay_setter(s1, try_delay.val)
    IN returncode_list_setter(s2, returncode_list)

\* BitcoinAPI.__init__: the accepted error list is fixed to [400]
BitcoinAPI__init__(try_count, try_delay) ==
    APIHandler__init__("BitcoinAPI", try_count, try_delay, {HTTP_BAD_REQUEST})

\* The log of what a query did to the outside: GET requests and sleeps.
GetEvent(response) ==
    [ev |-> "get", response |-> response, secs |-> [num |-> 0, den |-> 1000]]

SleepEvent(secs) ==
    [ev |-> "sleep", response |-> TransportError, secs |-> secs]

\* The activation of query_ before the loop: do_loop = True, try_counter = 0
query_enter ==
    [pc |-> "loop", try_counter |-> 0, events |-> <<>>, result |-> None,
     error |-> "none"]

\* No activation of query_
query_idle ==
    [pc |-> "idle", try_counter |-> 0, events |-> <<>>, result |-> None,
     error |-> "none"]

\* return of query_ with a value
query_return(st, value) ==
    [st EXCEPT !.pc = "returned", !.result = value]

\* an exception leaves query_
query_raise(st, error) ==
    [st EXCEPT !.pc = "raised", !.error = error]

\* variant: the comparison is strict, one pass too many
tries_used_up_strict(self, st) == st.try_counter > self.try_count

\* `try_counter >= self.try_count`: the tries are used up
tries_used_up(self, st) == st.try_counter >= self.try_count

\* variant: sleep() is handed the public property, which is milliseconds
sleep_length_ms(self) == [num |-> self.try_delay.num, den |-> 1]

\* The argument of sleep(): the private field, seconds
sleep_length(self) == self.try_delay

\* variant: the sleep comes before the test, so also after the last try
query_retry_sleep_first(self, st) ==
    LET slept == [st EXCEPT !.events = Append(@, SleepEvent(sleep_length(self)))]
    IN IF tries_used_up(self, st) THEN query_return(slept, None) ELSE slept

\* The end of one pass of the loop: stop when the tries are used up (the
\* method then falls off its end and returns None), sleep otherwise.
query_retry(self, st) ==
    IF tries_used_up(self, st)
    THEN query_return(st, None)
    ELSE IF sleep_raises(sleep_length(self))
         THEN query_raise(st, "ValueError")
         ELSE [st EXCEPT !.events = Append(@, SleepEvent(sleep_length(self)))]

\* variant: no status code is accepted, every error is retried
accepted_error_never(self, response) == FALSE

\* variant: every client or server error status is accepted
accepted_error_any(self, response) == response.status_code >= 400

\* `response.status_code in self.returncode_list`
accepted_error(self, response) ==
    response.status_code \in self.returncode_list

\* variant: the test of the accepted codes is an `if` of its own instead of
\* the `elif` of the test for 200, so it also sees a 200 that did not parse
query_pass_if(self, st, response) ==
    LET st1 == [st EXCEPT !.try_counter = @ + 1,
                          !.events = Append(@, GetEvent(response))]
        request_success == ~response.raised
        json_data == json(response)
        json_success == ~json_data.raised
    IN IF request_success /\ response.status_code = HTTP_OK /\ json_success
       THEN query_return(st1, ResponseObject(PyInt(HTTP_OK), json_data.value))
       ELSE IF request_success /\ accepted_error(self, response)
            THEN query_return(st1,
                     ResponseObject(PyInt(response.status_code), None))
            ELSE query_retry(self, st1)

\* One pass of the while loop of query_, the server answering `response`.
query_pass(self, st, response) ==
    LET st1 == [st EXCEPT !.try_counter = @ + 1,
                          !.events = Append(@, GetEvent(response))]
        request_success == ~response.raised
        json_data == json(response)
        json_success == ~json_data.raised
    IN IF request_success
       THEN IF response.status_code = HTTP_OK
            THEN IF json_success
                 THEN query_return(st1, ResponseObject(PyInt(HTTP_OK),
                                                       json_data.value))
                 ELSE query_retry(self, st1)
            ELSE IF accepted_error(self, response)
                 THEN query_return(st1,
                          ResponseObject(PyInt(response.status_code), None))
                 ELSE query_retry(self, st1)
       ELSE query_retry(self, st1)

----------------------------------------------------------------------------
(* Inputs                                                                  *)

\* JSON documents the server answers with
JsonValues == {None, PageDict(1, <<"t1">>)}

StatusCodes == {200, 400, 404, 500}

Bodies == {BadBody} \cup {JsonBody(v) : v \in JsonValues}

Responses ==
    {TransportError}
    \cup {HttpResponse(HTTP_OK, b) : b \in Bodies}
    \cup {HttpResponse(HTTP_BAD_REQUEST, b) : b \in {BadBody, JsonBody(None)}}
    \cup {HttpResponse(s, BadBody) : s \in StatusCodes \ {200, 400}}

ReturncodeLists == {{}, {400}, {400, 404}, {200, 400}}

TryCountArgs == {None} \cup {PyInt(n) : n \in -MaxNegTryCount .. MaxTryCount}

TryDelayArgs == {None} \cup {PyInt(n) : n \in 0 .. MaxTryDelay}

\* get_address_transactions before its first query; `pages` logs the page
\* indices queried so far, `served` the JSON documents the server gave for
\* the page queries that ended with a 200 answer, in the order of the queries
frame_idle ==
    [i |-> 0, pages_count |-> 0, result |-> <<>>, pages |-> <<>>,
     served |-> <<>>]

\* The ways a public method ends
Pending ==
    [kind |-> "pending", value |-> None, error |-> "none", message |-> "none",
     page |-> 0, total |-> 0]

Return(value) ==
    [kind |-> "return", value |-> value, error |-> "none", message |-> "none",
     page |-> 0, total |-> 0]

Raise(error, message) ==
    [kind |-> "raise", value |-> None, error |-> error, message |-> message,
     page |-> 0, total |-> 0]

\* the RuntimeError of a failed later page names the page and the total
RaisePage(message, page, total) ==
    [kind |-> "raise", value |-> None, error |-> "RuntimeError",
     message |-> message, page |-> page, total |-> total]

\* a Python list
PyList(items) == [type |-> "list", items |-> items]

\* a Python bool
PyBool(b) == [type |-> "bool", val |-> b]

\* a Python str
PyStr(chars) == [type |-> "str", val |-> chars]

\* The JSON document of the utxo endpoints
UtxoDict(utxos) == [type |-> "dict", utxos |-> PyList(utxos)]

\* The JSON document of address/fromXPub
AddressDict(address) == [type |-> "dict", cashAddress |-> PyStr(address)]

\* container[key]: TypeError on None, KeyError on a dict without the key
subscript(container, key) ==
    IF container = None
    THEN [raised |-> TRUE, error |-> "TypeError", value |-> None]
    ELSE IF key \notin DOMAIN container
         THEN [raised |-> TRUE, error |-> "KeyError", value |-> None]
         ELSE [raised |-> FALSE, error |-> "none", value |-> container[key]]

----------------------------------------------------------------------------
(* Specification of the query client: one APIHandler, one query            *)

Init ==
    /\ \E tc \in TryCountArgs, td \in TryDelayArgs, rl \in ReturncodeLists :
          api = APIHandler__init__("APIHandler", tc, td, rl)
    /\ op = "idle"
    /\ q = query_idle
    /\ q2 = query_idle
    /\ frame = frame_idle
    /\ outcome = Pending
    /\ txn = txn_none
    /\ wallet = absent
    /\ robj = absent
    /\ doc = absent
    /\ cont = absent
    /\ handlers = absent

\* handler.try_count = n
SetTryCount ==
    /\ op = "idle"
    /\ \E n \in -MaxNegTryCount .. MaxTryCount : api' = try_count_setter(api, n)
    /\ UNCHANGED <<op, q, q2, frame, outcome, txn,
                 wallet, robj, doc, cont, handlers>>

\* handler.try_delay = d
SetTryDelay ==
    /\ op = "idle"
    /\ \E d \in 0 .. MaxTryDelay : api' = try_delay_setter(api, d)
    /\ UNCHANGED <<op, q, q2, frame, outcome, txn,
                 wallet, robj, doc, cont, handlers>>

\* handler.returncode_list = rl
SetReturncodeList ==
    /\ op = "idle"
    /\ \E rl \in ReturncodeLists : api' = returncode_list_setter(api, rl)
    /\ UNCHANGED <<op, q, q2, frame, outcome, txn,
                 wallet, robj, doc, cont, handlers>>

\* handler.query(paramlist): builds the query string and enters query_
CallQuery ==
    /\ op = "idle"
    /\ op' = "query"
    /\ q' = query_enter
    /\ UNCHANGED <<api, q2, frame, outcome, txn,
                 wallet, robj, doc, cont, handlers>>

\* One pass of the loop of query_; the server's answer is the input.
QueryPass ==
    /\ q.pc = "loop"
    /\ \E response \in Responses : q' = query_pass(api, q, response)
    /\ UNCHANGED <<api, op, q2, frame, outcome, txn,
                 wallet, robj, doc, cont, handlers>>

\* query() hands the value (or the exception) of query_ to its caller
QueryDone ==
    /\ op = "query"
    /\ outcome = Pending
    /\ q.pc \in {"returned", "raised"}
    /\ outcome' = IF q.pc = "returned"
                  THEN Return(q.result)
                  ELSE Raise(q.error, "none")
    /\ UNCHANGED <<api, op, q, q2, frame, txn,
                 wallet, robj, doc, cont, handlers>>

Next ==
    \/ SetTryCount
    \/ SetTryDelay
    \/ SetReturncodeList
    \/ CallQuery
    \/ QueryPass
    \/ QueryDone

Spec == Init /\ [][Next]_vars

\* query_ runs to its end once entered: nothing in the program preempts it
LiveSpec == Spec /\ WF_vars(QueryPass)

----------------------------------------------------------------------------
(* Specification of two runs of query_ on the same handler: the second     *)
(* server answers like the first, except that a transport error may stand  *)
(* for a 200 answer with a malformed body and the reverse                  *)

Malformed200 == HttpResponse(HTTP_OK, BadBody)

\* the answers that may stand for `response` in the second run
Variants(response) ==
    IF response \in {TransportError, Malformed200}
    THEN {TransportError, Malformed200}
    ELSE {response}

TwinInit ==
    /\ \E n \in 0 .. MaxTwinTryCount, rl \in ReturncodeLists :
          api = APIHandler__init__("APIHandler", PyInt(n), None, rl)
    /\ op = "idle"
    /\ q = query_idle
    /\ q2 = query_idle
    /\ frame = frame_idle
    /\ outcome = Pending
    /\ txn = txn_none
    /\ wallet = absent
    /\ robj = absent
    /\ doc = absent
    /\ cont = absent
    /\ handlers = absent

\* the same query is started against both servers
TwinCallQuery ==
    /\ op = "idle"
    /\ op' = "query"
    /\ q' = query_enter
    /\ q2' = query_enter
    /\ UNCHANGED <<api, frame, outcome, txn,
                 wallet, robj, doc, cont, handlers>>

\* the n-th pass of each run that is still looping, on the n-th answers
TwinQueryPass ==
    /\ q.pc = "loop" \/ q2.pc = "loop"
    /\ \E response \in Responses : \E response2 \in Variants(response) :
          /\ q' = IF q.pc = "loop" THEN query_pass(api, q, response) ELSE q
          /\ q2' = IF q2.pc = "loop" THEN query_pass(api, q2, response2) ELSE q2
    /\ UNCHANGED <<api, op, frame, outcome, txn,
                 wallet, robj, doc, cont, handlers>>

TwinNext == TwinCallQuery \/ TwinQueryPass

TwinSpec == TwinInit /\ [][TwinNext]_vars

----------------------------------------------------------------------------
(* BitcoinAPI: the lookup methods, as functions of the value of query()    *)

\* variant: the test for 400 is lost, an invalid address gives None
get_address_details_no_400(data) ==
    IF data # None
    THEN IF data.code = PyInt(HTTP_OK)
         THEN Return(data.content)
         ELSE Return(None)
    ELSE Return(None)

\* get_address_details, after `data = self.query([...])`
get_address_details(data) ==
    IF data # None
    THEN IF data.code = PyInt(HTTP_OK)
         THEN Return(data.content)
         ELSE IF data.code = PyInt(HTTP_BAD_REQUEST)
              THEN Raise("ValueError", "invalid wallet address")
              ELSE Return(None)
    ELSE Return(None)

\* get_block_by_hash, after `data = self.query([...])`
get_block_by_hash(data) ==
    IF data # None
    THEN IF data.code = PyInt(HTTP_OK)
         THEN Return(data.content)
         ELSE IF data.code = PyInt(HTTP_BAD_REQUEST)
              THEN Raise("ValueError", "invalid block hash")
              ELSE Return(None)
    ELSE Return(None)

\* get_block_by_hight, after `data = self.query([...])`
get_block_by_hight(data) ==
    IF data # None
    THEN IF data.code = PyInt(HTTP_OK)
         THEN Return(data.content)
         ELSE IF data.code = PyInt(HTTP_BAD_REQUEST)
              THEN Raise("ValueError", "invalid block height")
              ELSE Return(None)
    ELSE Return(None)

\* get_transaction, after `data = self.query([...])`
get_transaction(data) ==
    IF data # None
    THEN IF data.code = PyInt(HTTP_OK)
         THEN Return(data.content)
         ELSE IF data.code = PyInt(HTTP_BAD_REQUEST)
              THEN Raise("ValueError", "invalid txid")
              ELSE Return(None)
    ELSE Return(None)

\* get_address_unconfirmed, after `data = self.query([...])`
get_address_unconfirmed(data) ==
    IF data # None
    THEN IF data.code = PyInt(HTTP_OK)
         THEN LET item == subscript(data.content, "utcos")
              IN IF item.raised
                 THEN Raise(item.error, "utcos")
                 ELSE Return(item.value)
         ELSE IF data.code = PyInt(HTTP_BAD_REQUEST)
              THEN Raise("ValueError", "invalid wallet address")
              ELSE Return(None)
    ELSE Return(None)

\* get_address_utxo, after `data = self.query([...])`
get_address_utxo(data) ==
    IF data # None
    THEN IF data.code = PyInt(HTTP_OK)
         THEN LET item == subscript(data.content, "utxos")
              IN IF item.raised
                 THEN Raise(item.error, "utxos")
                 ELSE Return(item.value)
         ELSE IF data.code = PyInt(HTTP_BAD_REQUEST)
              THEN Raise("ValueError", "invalid wallet address")
              ELSE Return(None)
    ELSE Return(None)

\* variant: any answered query counts as a valid wallet
is_valid_wallet_any_code(result) ==
    IF result # None THEN Return(PyBool(TRUE)) ELSE Return(PyBool(FALSE))

\* is_valid_wallet, after `result = api.query([...])`
is_valid_wallet(result) ==
    IF result # None
    THEN IF result.code = PyInt(HTTP_OK)
         THEN Return(PyBool(TRUE))
         ELSE Return(PyBool(FALSE))
    ELSE Return(PyBool(FALSE))

\* variant: the payload is subscripted without the isinstance and key tests
address_from_public_key_unchecked(result) ==
    IF result # None
    THEN IF result.code = PyInt(HTTP_OK)
         THEN LET item == subscript(result.content, "cashAddress")
              IN IF item.raised
                 THEN Raise(item.error, "cashAddress")
                 ELSE Return(item.value)
         ELSE Return(None)
    ELSE Return(None)

\* address_from_public_key, after `result = api.query([...])`
address_from_public_key(result) ==
    IF result # None
    THEN IF result.code = PyInt(HTTP_OK)
         THEN IF result.content.type = "dict"
              THEN IF "cashAddress" \in DOMAIN result.content
                   THEN Return(result.content["cashAddress"])
                   ELSE Return(None)
              ELSE Return(None)
         ELSE Return(None)
    ELSE Return(None)

\* the two utxo methods
UtxoLookups == {"get_address_unconfirmed", "get_address_utxo"}

\* the two classmethods, which build a handler of their own
ClassMethods == {"is_valid_wallet", "address_from_public_key"}

\* `api = APIHandler('http://rest.bitcoin.com/v2', returncode_list=[400])`
classmethod_api ==
    APIHandler__init__("APIHandler", None, None, {HTTP_BAD_REQUEST})

\* the handler whose query() a method calls: self, or the classmethod's own
query_handler(method, self) ==
    IF method \in ClassMethods THEN classmethod_api ELSE self

\* the end of a utxo method or classmethod whose query gave `data`
method_end(method, data) ==
    CASE method = "get_address_unconfirmed" -> get_address_unconfirmed(data)
      [] method = "get_address_utxo" -> get_address_utxo(data)
      [] method = "is_valid_wallet" -> is_valid_wallet(data)
      [] method = "address_from_public_key" -> address_from_public_key(data)

\* the methods that make one query and hand back its record
RecordLookups ==
    {"get_address_details", "get_block_by_hash", "get_block_by_hight",
     "get_transaction"}

Lookups == RecordLookups \cup {"get_address_transactions"}

\* the end of a record lookup whose query gave `data`
lookup_end(method, data) ==
    CASE method = "get_address_details" -> get_address_details(data)
      [] method = "get_block_by_hash" -> get_block_by_hash(data)
      [] method = "get_block_by_hight" -> get_block_by_hight(data)
      [] method = "get_transaction" -> get_transaction(data)

\* variant: the entries of a page are put in front of the collected ones
append_txs_front(result, content) == content.txs \o result

\* data.content['txs'] appended to result, entry by entry
append_txs(result, content) == result \o content.txs

\* get_address_transactions from the value of the query for page 0 up to
\* the first query of the pagination loop, or to the end of the method.
\* Gives the frame, whether a further query is made, and the outcome.
transactions_first_page(fr, data) ==
    IF data # None
    THEN IF data.code = PyInt(HTTP_OK)
         THEN IF data.content = None
              THEN [frame |-> fr, again |-> FALSE,
                    outcome |-> Raise("TypeError", "not subscriptable")]
              ELSE LET pages_count == data.content.pagesTotal
                       result == append_txs(<<>>, data.content)
                   IN IF 1 < pages_count
                      THEN [frame |-> [fr EXCEPT !.i = 1,
                                         !.pages_count = pages_count,
                                         !.result = result,
                                         !.pages = Append(@, 1)],
                            again |-> TRUE, outcome |-> Pending]
                      ELSE [frame |-> [fr EXCEPT !.pages_count = pages_count,
                                                 !.result = result],
                            again |-> FALSE, outcome |-> Return(PyList(result))]
         ELSE IF data.code = PyInt(HTTP_BAD_REQUEST)
              THEN [frame |-> fr, again |-> FALSE,
                    outcome |-> Raise("ValueError", "invalid wallet address")]
              ELSE [frame |-> fr, again |-> FALSE, outcome |-> Return(None)]
    ELSE [frame |-> fr, again |-> FALSE, outcome |-> Return(None)]

\* variant: a failed page is skipped and the loop goes on with the next one
page_failed_skip(fr, message) ==
    IF fr.i + 1 < fr.pages_count
    THEN [frame |-> [fr EXCEPT !.i = @ + 1, !.pages = Append(@, fr.i + 1)],
          again |-> TRUE, outcome |-> Pending]
    ELSE [frame |-> fr, again |-> FALSE, outcome |-> Return(PyList(fr.result))]

\* variant: a failed page ends the loop and what was collected is returned
page_failed_partial(fr, message) ==
    [frame |-> fr, again |-> FALSE, outcome |-> Return(PyList(fr.result))]

\* `raise RuntimeError('... (page: {}/{}).'.format(i, pages_count))`
page_failed(fr, message) ==
    [frame |-> fr, again |-> FALSE,
     outcome |-> RaisePage(message, fr.i, fr.pages_count)]

\* One turn of `for i in range(1, pages_count)` from the value of the query
\* for page i up to the next query, or to the end of the method.
transactions_next_page(fr, data) ==
    IF data # None
    THEN IF data.code = PyInt(HTTP_OK)
         THEN IF data.content = None
              THEN [frame |-> fr, again |-> FALSE,
                    outcome |-> Raise("TypeError", "not subscriptable")]
              ELSE LET result == append_txs(fr.result, data.content)
                   IN IF fr.i + 1 < fr.pages_count
                      THEN [frame |-> [fr EXCEPT !.i = @ + 1,
                                         !.result = result,
                                         !.pages = Append(@, fr.i + 1)],
                            again |-> TRUE, outcome |-> Pending]
                      ELSE [frame |-> [fr EXCEPT !.result = result],
                            again |-> FALSE, outcome |-> Return(PyList(result))]
         ELSE page_failed(fr, "error 400 while getting transactions")
    ELSE page_failed(fr, "error while getting transactions")

----------------------------------------------------------------------------
(* Specification of the facade: one BitcoinAPI, one lookup                 *)

PageTxs == {<<>>, <<"t1">>, <<"t2", "t1">>}

PageDicts == {PageDict(n, txs) : n \in 0 .. MaxPages, txs \in PageTxs}

FacadeResponses ==
    {TransportError}
    \cup {HttpResponse(HTTP_OK, b) :
             b \in {BadBody, JsonBody(None)} \cup {JsonBody(d) : d \in PageDicts}}
    \cup {HttpResponse(s, BadBody) : s \in {400, 404}}

FacadeReturncodeLists == {{400}, {400, 404}, {}}

\* what the utxo endpoints and address/fromXPub answer with
OtherDicts ==
    {UtxoDict(<<>>), UtxoDict(<<"u1">>), AddressDict("a1")}

OtherResponses ==
    {TransportError}
    \cup {HttpResponse(HTTP_OK, b) :
             b \in {BadBody, JsonBody(None)} \cup {JsonBody(d) : d \in OtherDicts}}
    \cup {HttpResponse(s, BadBody) : s \in {400, 404}}

\* the answers the server may give to the query of a method
ResponsesOf(method) ==
    IF method \in Lookups THEN FacadeResponses ELSE OtherResponses

FacadeInit ==
    /\ \E n \in 1 .. MaxFacadeTryCount : api = BitcoinAPI__init__(PyInt(n), None)
    /\ op = "idle"
    /\ q = query_idle
    /\ q2 = query_idle
    /\ frame = frame_idle
    /\ outcome = Pending
    /\ txn = txn_none
    /\ wallet = absent
    /\ robj = absent
    /\ doc = absent
    /\ cont = absent
    /\ handlers = absent

\* api.returncode_list = rl: the property is inherited and public
FacadeSetReturncodeList ==
    /\ op = "idle"
    /\ \E rl \in FacadeReturncodeLists : api' = returncode_list_setter(api, rl)
    /\ UNCHANGED <<op, q, q2, frame, outcome, txn,
                 wallet, robj, doc, cont, handlers>>

\* a lookup method is called: its first statement is the query
CallLookup ==
    /\ op = "idle"
    /\ \E method \in Lookups :
          /\ op' = method
          /\ frame' = IF method = "get_address_transactions"
                      THEN [frame_idle EXCEPT !.pages = <<0>>]
                      ELSE frame_idle
    /\ q' = query_enter
    /\ UNCHANGED <<api, q2, outcome, txn,
                 wallet, robj, doc, cont, handlers>>

\* a utxo method or a classmethod is called: its query comes first
CallMethod ==
    /\ op = "idle"
    /\ \E method \in UtxoLookups \cup ClassMethods : op' = method
    /\ q' = query_enter
    /\ UNCHANGED <<api, q2, frame, outcome, txn,
                 wallet, robj, doc, cont, handlers>>

\* the rest of a utxo method or classmethod once its query has returned
MethodEnd ==
    /\ op \in UtxoLookups \cup ClassMethods
    /\ outcome = Pending
    /\ q.pc = "returned"
    /\ outcome' = method_end(op, q.result)
    /\ UNCHANGED <<api, op, q, q2, frame, txn,
                 wallet, robj, doc, cont, handlers>>

\* One pass of the loop of query_ inside a method of the facade
FacadeQueryPass ==
    /\ q.pc = "loop"
    /\ \E response \in ResponsesOf(op) :
          q' = query_pass(query_handler(op, api), q, response)
    /\ UNCHANGED <<api, op, q2, frame, outcome, txn,
                 wallet, robj, doc, cont, handlers>>

\* the rest of a record lookup once its query has returned
LookupEnd ==
    /\ op \in RecordLookups
    /\ outcome = Pending
    /\ q.pc = "returned"
    /\ outcome' = lookup_end(op, q.result)
    /\ UNCHANGED <<api, op, q, q2, frame, txn,
                 wallet, robj, doc, cont, handlers>>

\* the log of served documents once the query st of a page has ended: the
\* document of its last answer is added when that answer was a 200 with JSON
served_log(fr, st) ==
    LET last == st.events[Len(st.events)].response
    IN IF ~last.raised /\ last.status_code = HTTP_OK /\ last.body.json
       THEN Append(fr.served, last.body.value)
       ELSE fr.served

\* get_address_transactions once the query for page 0 has returned
TransactionsFirstPage ==
    /\ op = "get_address_transactions"
    /\ outcome = Pending
    /\ q.pc = "returned"
    /\ frame.i = 0
    /\ LET step == transactions_first_page(frame, q.result)
       IN /\ frame' = [step.frame EXCEPT !.served = served_log(frame, q)]
          /\ outcome' = step.outcome
          /\ q' = IF step.again THEN query_enter ELSE q
    /\ UNCHANGED <<api, op, q2, txn,
                 wallet, robj, doc, cont, handlers>>

\* get_address_transactions once the query for page i >= 1 has returned
TransactionsNextPage ==
    /\ op = "get_address_transactions"
    /\ outcome = Pending
    /\ q.pc = "returned"
    /\ frame.i >= 1
    /\ LET step == transactions_next_page(frame, q.result)
       IN /\ frame' = [step.frame EXCEPT !.served = served_log(frame, q)]
          /\ outcome' = step.outcome
          /\ q' = IF step.again THEN query_enter ELSE q
    /\ UNCHANGED <<api, op, q2, txn,
                 wallet, robj, doc, cont, handlers>>

FacadeNext ==
    \/ FacadeSetReturncodeList
    \/ CallLookup
    \/ CallMethod
    \/ MethodEnd
    \/ FacadeQueryPass
    \/ LookupEnd
    \/ TransactionsFirstPage
    \/ TransactionsNextPage

FacadeSpec == FacadeInit /\ [][FacadeNext]_vars

----------------------------------------------------------------------------
(* CBTransaction: the ledger entry. Amounts are whole numbers of satoshi.  *)

\* The names bound at module level of chainbridge.py: its imports, classes
\* and functions. A name read in a method and bound neither there nor here
\* raises NameError.
ModuleGlobals ==
    {"Iterable", "Decimal", "isfile", "pickle", "requests", "sleep", "time",
     "ResponseObject", "APIHandler", "BitcoinAPI", "Wallet", "UserWallet",
     "WalletContainer", "CBTransaction", "TransactionContainer", "CBUtxo",
     "UtxoContainer", "CBDocument", "ProtectedCBDocument",
     "StatementOfAccount", "AccountActivity", "SearchObject", "bch_2_sat",
     "generic_permission_function", "generic_permission_function_for_restore",
     "has_state", "is_equal_bch", "now", "sat_2_bch"}

\* the lookup of a name that is not a local of the method
global_defined(name) == name \in ModuleGlobals

\* isinstance(value, Iterable), for a list or a number
is_iterable(value) == value.type = "list"

RECURSIVE SumSeq(_)
SumSeq(items) ==
    IF items = <<>> THEN 0 ELSE items[1] + SumSeq(Tail(items))

\* round(x, 8) of an amount that is a whole number of satoshi
round8(satoshi) == satoshi

\* `total = 0; for item in amounts: total += item; round(total, 8)`: the
\* loop runs over the argument as given, a number raises TypeError
total_of(amounts) ==
    IF is_iterable(amounts)
    THEN [raised |-> FALSE, value |-> round8(SumSeq(amounts.items))]
    ELSE [raised |-> TRUE, value |-> 0]

\* `if isinstance(x, Iterable): self.__x = x else: self.__x = [x]`
as_list(amounts) ==
    IF is_iterable(amounts) THEN amounts ELSE PyList(<<amounts.val>>)

\* the derived fields, from the three totals (lines 1809-1829)
derived_fields(total_input, total_output, total_fee) ==
    IF total_input > total_output
    THEN LET paid == round8(total_input - total_output)
         IN [paid |-> paid, received |-> 0, fee |-> total_fee,
             is_outgoing |-> TRUE, is_incoming |-> FALSE,
             balance |-> round8(-paid)]
    ELSE IF total_input < total_output
         THEN LET received == round8(total_output - total_input)
              IN [paid |-> 0, received |-> received, fee |-> 0,
                  is_outgoing |-> FALSE, is_incoming |-> TRUE,
                  balance |-> received]
         ELSE [paid |-> 0, received |-> 0, fee |-> 0,
               is_outgoing |-> FALSE, is_incoming |-> FALSE, balance |-> 0]

\* the call CBTransaction(...) ended with an exception: no object is bound
txn_raise(args, error) ==
    [pc |-> "raised", args |-> args, obj |-> None, error |-> error,
     set |-> None]

\* CBTransaction.__init__ on the arguments a. The third and fourth
\* assignments read transaction_timestamp and block_timestamp, which are
\* neither parameters (those are transaction_time and block_time) nor
\* module-level names.
CBTransaction__init__(a) ==
    IF ~global_defined("transaction_timestamp")
    THEN txn_raise(a, "NameError")
    ELSE IF ~global_defined("block_timestamp")
    THEN txn_raise(a, "NameError")
    ELSE LET total_input == total_of(a.inputs)
             total_output == total_of(a.outputs)
             total_fee == total_of(a.fees)
         IN IF total_input.raised \/ total_output.raised \/ total_fee.raised
            THEN txn_raise(a, "TypeError")
            ELSE LET d == derived_fields(total_input.value,
                                         total_output.value, total_fee.value)
                 IN [pc |-> "built", args |-> a, error |-> "none",
                     set |-> None,
                     obj |-> [type |-> "CBTransaction",
                              tx |-> a.tx,
                              block_height |-> a.block_height,
                              transaction_time |-> "transaction_timestamp",
                              block_time |-> "block_timestamp",
                              first_seen_time |-> a.first_seen_time,
                              confirmations |-> a.confirmations,
                              inputs |-> as_list(a.inputs),
                              outputs |-> as_list(a.outputs),
                              fees |-> as_list(a.fees),
                              foreign_address |-> a.foreign_address,
                              confirmation_limit |-> DEFAULT_CONFIRMATION_LIMIT,
                              total_input |-> total_input.value,
                              total_output |-> total_output.value,
                              total_fee |-> total_fee.value,
                              paid |-> d.paid,
                              received |-> d.received,
                              fee |-> d.fee,
                              is_outgoing |-> d.is_outgoing,
                              is_incoming |-> d.is_incoming,
                              balance |-> d.balance]]

\* confirmation_limit setter
confirmation_limit_setter(self, newlimit) ==
    [self EXCEPT !.confirmation_limit = newlimit]

\* is_well_confirmed
is_well_confirmed(self) == self.confirmations >= self.confirmation_limit

\* is_confirmed
is_confirmed(self) == self.confirmations > 0

\* is_unconfirmed
is_unconfirmed(self) == self.confirmations = 0

----------------------------------------------------------------------------
(* Specification of the ledger entry: one call of CBTransaction(...)       *)

RECURSIVE AmountSeqs(_)
AmountSeqs(n) ==
    IF n = 0 THEN {<<>>}
    ELSE AmountSeqs(n - 1)
         \cup {Append(seq, a) : seq \in AmountSeqs(n - 1), a \in 0 .. MaxAmount}

\* an amounts argument: a list, or a solo number
AmountArgs ==
    {PyList(seq) : seq \in AmountSeqs(MaxAmounts)}
    \cup {PyInt(a) : a \in {MaxAmount}}

\* the fees argument
FeeArgs == {PyList(<<>>), PyList(<<1>>), PyInt(1)}

\* the confirmation_limit argument, None standing for an omitted one
LimitArgs == {None, PyInt(1), PyInt(MaxLimit)}

\* the arguments of a call CBTransaction(...)
TxnArgs ==
    [tx : {"t1"}, block_height : {1}, transaction_time : {2},
     block_time : {3}, first_seen_time : {4},
     confirmations : {0, 5, 6, MaxConfirmations},
     inputs : AmountArgs, outputs : AmountArgs, fees : FeeArgs,
     foreign_address : {"addr"},
     confirmation_limit : LimitArgs]

LedgerInit ==
    /\ api = BitcoinAPI__init__(None, None)
    /\ op = "idle"
    /\ q = query_idle
    /\ q2 = query_idle
    /\ frame = frame_idle
    /\ outcome = Pending
    /\ \E a \in TxnArgs :
          txn = [pc |-> "call", args |-> a, obj |-> None, error |-> "none",
                 set |-> None]
    /\ wallet = absent
    /\ robj = absent
    /\ doc = absent
    /\ cont = absent
    /\ handlers = absent

\* CBTransaction(...) runs __init__ and binds the object if it returns
Construct ==
    /\ txn.pc = "call"
    /\ txn' = CBTransaction__init__(txn.args)
    /\ UNCHANGED <<api, op, q, q2, frame, outcome,
                 wallet, robj, doc, cont, handlers>>

\* entry.confirmation_limit = newlimit, on an entry that exists; txn.set
\* logs the limit set last. No call of CBTransaction(...) returns an entry,
\* so the step is not one the program can take and LedgerNext leaves it out.
SetConfirmationLimit ==
    /\ txn.pc = "built"
    /\ \E newlimit \in {1, DEFAULT_CONFIRMATION_LIMIT, MaxLimit} :
          txn' = [txn EXCEPT !.obj = confirmation_limit_setter(@, newlimit),
                             !.set = PyInt(newlimit)]
    /\ UNCHANGED <<api, op, q, q2, frame, outcome,
                 wallet, robj, doc, cont, handlers>>

LedgerNext == Construct

LedgerSpec == LedgerInit /\ [][LedgerNext]_vars

----------------------------------------------------------------------------
(* What a query did: read off its log                                      *)

GetIndices(st) == {i \in DOMAIN st.events : st.events[i].ev = "get"}

SleepIndices(st) == {i \in DOMAIN st.events : st.events[i].ev = "sleep"}

Requests(st) == Cardinality(GetIndices(st))

Sleeps(st) == Cardinality(SleepIndices(st))

Ended(st) == st.pc \in {"returned", "raised"}

Max(a, b) == IF a >= b THEN a ELSE b

\* every attempt so far failed in requests.get
AllTransportErrors(st) ==
    \A i \in GetIndices(st) : st.events[i].response.raised

\* the answer is HTTP 200 with a body that parses
IsParsable200(response) ==
    ~response.raised /\ response.status_code = HTTP_OK /\ response.body.json

\* the answer is HTTP 200 with a body that does not parse
IsMalformed200(response) ==
    ~response.raised /\ response.status_code = HTTP_OK /\ ~response.body.json

\* the answer carries an accepted error code other than 200
IsAcceptedError(self, response) ==
    /\ ~response.raised
    /\ response.status_code # HTTP_OK
    /\ response.status_code \in self.returncode_list

\* the attempt neither succeeded nor gave an accepted error
IsFailedAttempt(self, response) ==
    ~IsParsable200(response) /\ ~IsAcceptedError(self, response)

IsSuccess(st) ==
    /\ st.pc = "returned"
    /\ st.result # None
    /\ st.result.code = PyInt(HTTP_OK)

IsAcceptedErrorResult(st) ==
    /\ st.pc = "returned"
    /\ st.result # None
    /\ st.result.code # PyInt(HTTP_OK)

IsTotalFailure(st) == st.pc = "returned" /\ st.result = None

----------------------------------------------------------------------------
(* Claims about query_                                                     *)

\* C1: with max_attempts >= 1 and only transport errors, the query issues
\* exactly max_attempts GET requests, sleeps max_attempts - 1 times, never
\* after the last GET, and returns None; before that it is still looping.
C1_AllFailuresUseEveryTry ==
    (q.pc # "idle" /\ api.try_count >= 1 /\ AllTransportErrors(q)) =>
        /\ q.pc = "loop" =>
              /\ Requests(q) < api.try_count
              /\ Sleeps(q) = Requests(q)
        /\ Ended(q) =>
              /\ IsTotalFailure(q)
              /\ Requests(q) = api.try_count
              /\ Sleeps(q) = api.try_count - 1
              /\ q.events[Len(q.events)].ev = "get"

C1_Witness ==
    /\ q.pc = "returned"
    /\ api.try_count = 3
    /\ AllTransportErrors(q)
    /\ Requests(q) = 3
    /\ q.result = None

\* C2: an answer whose status is an accepted error code (not 200) is the
\* last thing the query does: it returns ResponseObject(status, None) with
\* no later GET and no sleep; if it is the first answer, one request is made.
C2_AcceptedErrorEndsQuery ==
    \A i \in GetIndices(q) :
        IsAcceptedError(api, q.events[i].response) =>
            /\ i = Len(q.events)
            /\ q.pc = "returned"
            /\ q.result # None
            /\ q.result.type = "ResponseObject"
            /\ q.result.code = PyInt(q.events[i].response.status_code)
            /\ q.result.content = None
            /\ (\A j \in GetIndices(q) :
                   IsAcceptedError(api, q.events[j].response)) => Requests(q) = 1

C2_Witness ==
    /\ q.pc = "returned"
    /\ api.returncode_list = {400}
    /\ api.try_count = 3
    /\ q.events = <<GetEvent(HttpResponse(400, JsonBody(None)))>>
    /\ q.result = [type |-> "ResponseObject", code |-> PyInt(400),
                   content |-> None, error |-> "none"]

\* C3: an answer of HTTP 200 with a parsable body is the last thing the
\* query does: it returns ResponseObject(200, data), data being the parsed
\* body of that answer, whatever failed attempts came before.
C3_SuccessEndsQuery ==
    \A i \in GetIndices(q) :
        IsParsable200(q.events[i].response) =>
            /\ i = Len(q.events)
            /\ q.pc = "returned"
            /\ q.result # None
            /\ q.result.type = "ResponseObject"
            /\ q.result.error = "none"
            /\ q.result.code = PyInt(HTTP_OK)
            /\ q.result.content = q.events[i].response.body.value

C3_Witness ==
    /\ q.pc = "returned"
    /\ Requests(q) = 3
    /\ q.events[1].response = TransportError
    /\ IsMalformed200(q.events[3].response)
    /\ IsParsable200(q.events[5].response)
    /\ q.result.content = PageDict(1, <<"t1">>)

\* C4: a query ends in exactly one of success, accepted error and total
\* failure, and a returned ResponseObject has a payload exactly when its
\* code is 200.
C4_PayloadIffSuccess ==
    Ended(q) =>
        /\ q.pc = "returned"
        /\ Cardinality({o \in {"success", "accepted", "failure"} :
               \/ o = "success" /\ IsSuccess(q)
               \/ o = "accepted" /\ IsAcceptedErrorResult(q)
               \/ o = "failure" /\ IsTotalFailure(q)}) = 1
        /\ q.result # None =>
              (q.result.content # None <=> q.result.code = PyInt(HTTP_OK))

\* C5 as stated: whatever max_attempts is, a query that has ended has
\* issued at most max_attempts GET requests.
C5_AtMostMaxAttempts == Ended(q) => Requests(q) <= api.try_count

\* C5 amended: a query issues at most max_attempts GET requests when
\* max_attempts >= 1 and exactly one when max_attempts <= 0, and it ends.
C5_BoundedAndTerminates ==
    /\ [](Requests(q) <= Max(1, api.try_count))
    /\ []((Ended(q) /\ api.try_count <= 0) => Requests(q) = 1)
    /\ []((q.pc = "loop") => <>(q.pc = "returned"))

C5_Witness ==
    /\ q.pc = "returned"
    /\ api.try_count = 0
    /\ Requests(q) = 1
    /\ q.result = None

\* C6: query_ never raises; a failed attempt (transport error, malformed
\* body, status not accepted) that uses up the tries makes it return None,
\* and a returned ResponseObject carries 200 or an accepted code only.
C6_FailuresAbsorbed ==
    /\ q.pc # "raised"
    /\ q.error = "none"
    /\ (q.pc # "idle" /\ Len(q.events) > 0
          /\ q.events[Len(q.events)].ev = "get"
          /\ IsFailedAttempt(api, q.events[Len(q.events)].response)) =>
            /\ q.try_counter >= api.try_count
            /\ IsTotalFailure(q)
    /\ (q.pc = "returned" /\ q.result # None) =>
            /\ q.result.error = "none"
            /\ \/ q.result.code = PyInt(HTTP_OK)
               \/ q.result.code.val \in api.returncode_list

C6_Witness ==
    /\ q.pc = "returned"
    /\ q.result = None
    /\ api.try_count = 3
    /\ q.events[1].response = TransportError
    /\ IsMalformed200(q.events[3].response)
    /\ q.events[5].response = HttpResponse(500, BadBody)

\* C7: two runs whose servers differ only in that transport errors and
\* 200 answers with a malformed body are exchanged do the same: same
\* position, same number of requests and sleeps, same result, also with
\* 200 among the accepted codes.
C7_MalformedLikeTransportError ==
    /\ q.pc = q2.pc
    /\ q.try_counter = q2.try_counter
    /\ Requests(q) = Requests(q2)
    /\ Sleeps(q) = Sleeps(q2)
    /\ SleepIndices(q) = SleepIndices(q2)
    /\ q.result = q2.result
    /\ q.error = q2.error

C7_Witness ==
    /\ q.pc = "returned"
    /\ q2.pc = "returned"
    /\ HTTP_OK \in api.returncode_list
    /\ Requests(q) = 3
    /\ q.events[1].response = TransportError
    /\ q2.events[1].response = Malformed200
    /\ q.events[3].response = Malformed200
    /\ q2.events[3].response = TransportError
    /\ q.events[5].response = Malformed200
    /\ q2.events[5].response = TransportError
    /\ q.result = None

\* C8: the log of a query alternates GET and sleep, starting with a GET;
\* every sleep lasts try_delay milliseconds (try_delay / 1000 seconds),
\* whatever the attempt number; an ended query has one sleep less than GETs.
C8_ConstantDelayBetweenRequests ==
    /\ \A i \in DOMAIN q.events :
          /\ q.events[i].ev = (IF i % 2 = 1 THEN "get" ELSE "sleep")
          /\ q.events[i].ev = "sleep" =>
                /\ q.events[i].secs = api.try_delay
                /\ q.events[i].secs.den = 1000
    /\ Ended(q) => Sleeps(q) = Requests(q) - 1
    /\ q.pc = "loop" => Sleeps(q) = Requests(q)

C8_Witness ==
    /\ q.pc = "returned"
    /\ Requests(q) = 3
    /\ Sleeps(q) = 2
    /\ api.try_delay = [num |-> 1, den |-> 1000]
    /\ q.events[2].secs = q.events[4].secs

----------------------------------------------------------------------------
(* Claims about the facade                                                 *)

\* the query of the running lookup ended with accepted error 400
IsAccepted400(st) ==
    IsAcceptedErrorResult(st) /\ st.result.code = PyInt(HTTP_BAD_REQUEST)

\* the lookup has ended and q is the query it made for its (first) page
FirstQueryDecided ==
    /\ outcome # Pending
    /\ \/ op \in RecordLookups
       \/ op = "get_address_transactions" /\ frame.pages = <<0>>

\* C9 as stated: for every lookup (the first page of address transactions
\* included) success with a payload gives the raw record, accepted error
\* 400 gives ValueError after exactly one request, total failure gives None.
C9_LookupOutcomes_Original ==
    FirstQueryDecided =>
        /\ q.pc = "returned"
        /\ (IsSuccess(q) /\ q.result.content # None) =>
              outcome = Return(q.result.content)
        /\ IsAccepted400(q) =>
              /\ outcome.kind = "raise"
              /\ outcome.error = "ValueError"
              /\ Requests(q) = 1
        /\ IsTotalFailure(q) => outcome = Return(None)

\* C9 amended: a record lookup (address details, block by hash, block by
\* height, transaction by id) gives the raw record on success; accepted
\* error 400 gives ValueError with no request after the one answered 400
\* (one request in all only if that was the first); total failure gives
\* None. The first-page query of address transactions maps 400 and total
\* failure the same way, but its success never gives the raw record: with a
\* page record and no further page the method returns the list of the
\* record's 'txs' entries, with a null payload it fails with TypeError.
C9_LookupOutcomes ==
    /\ outcome # Pending => q.pc = "returned"
    /\ FirstQueryDecided =>
        /\ (IsSuccess(q) /\ op \in RecordLookups) =>
              outcome = Return(q.result.content)
        /\ (IsSuccess(q) /\ op = "get_address_transactions") =>
              /\ outcome # Return(q.result.content)
              /\ q.result.content # None =>
                    outcome = Return(PyList(q.result.content.txs))
              /\ q.result.content = None =>
                    (outcome.kind = "raise" /\ outcome.error = "TypeError")
        /\ IsAccepted400(q) =>
              /\ outcome.kind = "raise"
              /\ outcome.error = "ValueError"
              /\ q.events[Len(q.events)].ev = "get"
              /\ q.events[Len(q.events)].response.status_code = HTTP_BAD_REQUEST
              /\ \A i \in GetIndices(q) :
                    q.events[i].response.status_code = HTTP_BAD_REQUEST
                        => i = Len(q.events)
        /\ IsTotalFailure(q) => outcome = Return(None)

C9_Witness ==
    /\ op = "get_address_details"
    /\ outcome.kind = "raise"
    /\ outcome.error = "ValueError"
    /\ Requests(q) = 2
    /\ q.events[1].response = TransportError
    /\ q.events[3].response.status_code = HTTP_BAD_REQUEST

\* C10: a record lookup returns None only when its query ended in total
\* failure, and never when the query ended in success.
C10_NoneOnlyOnTotalFailure ==
    (op \in RecordLookups /\ outcome # Pending) =>
        /\ outcome = Return(None) => IsTotalFailure(q)
        /\ IsSuccess(q) => outcome # Return(None)

----------------------------------------------------------------------------
(* Claims about the pagination of get_address_transactions                 *)

\* the 'txs' lists of the first n documents of a log, one after the other
RECURSIVE ConcatTxs(_, _)
ConcatTxs(docs, n) ==
    IF n <= 0 THEN <<>> ELSE ConcatTxs(docs, n - 1) \o docs[n].txs

\* the method get_address_transactions has ended
TransactionsEnded == op = "get_address_transactions" /\ outcome # Pending

\* every page query so far ended with a 200 answer carrying a page record
AllPagesServed ==
    /\ Len(frame.served) = Len(frame.pages)
    /\ \A k \in DOMAIN frame.served : frame.served[k] # None

\* page 0 does not contradict itself: it announces a page, or has no entry
ConsistentFirstPage ==
    frame.served[1].pagesTotal >= 1 \/ frame.served[1].txs = <<>>

\* C11: when every page query succeeds with a page record, the method
\* returns the 'txs' lists of pages 0 .. pagesTotal-1 (pagesTotal read from
\* page 0) one after the other, in page order and in the server's order.
C11_ConcatenationInPageOrder ==
    (TransactionsEnded /\ AllPagesServed) =>
        /\ outcome.kind = "return"
        /\ outcome.value.type = "list"
        /\ Len(frame.served) = Max(1, frame.served[1].pagesTotal)
        /\ outcome.value.items = ConcatTxs(frame.served, Len(frame.served))
        /\ ConsistentFirstPage =>
              outcome.value.items =
                  ConcatTxs(frame.served, frame.served[1].pagesTotal)

C11_Witness ==
    /\ TransactionsEnded
    /\ AllPagesServed
    /\ Len(frame.served) = 2
    /\ frame.served[1].txs = <<"t2", "t1">>
    /\ frame.served[2].txs = <<"t1">>
    /\ outcome = Return(PyList(<<"t2", "t1", "t1">>))

\* C12: when the query of a page i >= 1 ends in accepted error 400 or in
\* total failure, the method raises an error that carries i and the
\* pagesTotal of page 0, and hands none of the collected entries back.
C12_LaterPageFailureAborts ==
    (TransactionsEnded /\ frame.i >= 1
       /\ (IsAccepted400(q) \/ IsTotalFailure(q))) =>
        /\ outcome.kind = "raise"
        /\ outcome.error = "RuntimeError"
        /\ outcome.value = None
        /\ outcome.page = frame.pages[Len(frame.pages)]
        /\ outcome.page = Len(frame.served)
        /\ outcome.total = frame.served[1].pagesTotal

C12_Witness ==
    /\ TransactionsEnded
    /\ frame.i = 1
    /\ IsTotalFailure(q)
    /\ Requests(q) = 2
    /\ frame.result = <<"t1">>
    /\ outcome.kind = "raise"
    /\ outcome.page = 1
    /\ outcome.total = 2

\* what holds of the page log in every state of the method
PagesInOrder ==
    op = "get_address_transactions" =>
        /\ \A k \in DOMAIN frame.pages : frame.pages[k] = k - 1
        /\ Len(frame.pages) >= 1
        /\ Len(frame.pages) >= 2 =>
              Len(frame.pages) <= frame.served[1].pagesTotal
        /\ \A k \in 1 .. Len(frame.pages) - 1 :
              k <= Len(frame.served) /\ frame.served[k] # None
        /\ outcome = Pending => Len(frame.served) = Len(frame.pages) - 1
        /\ (outcome.kind = "return" /\ outcome.value # None) =>
              Len(frame.pages) = Max(1, frame.served[1].pagesTotal)

\* a step that starts a query starts it for the next page, after the query
\* of the page before has ended in success
NextPageAfterSuccess ==
    (op = "get_address_transactions" /\ q'.events = <<>> /\ q' # q) =>
        /\ IsSuccess(q)
        /\ outcome' = Pending
        /\ frame'.pages = Append(frame.pages, Len(frame.pages))

\* a step from a page query that did not end in success ends the method
NoPageAfterFailure ==
    (op = "get_address_transactions" /\ q.pc = "returned" /\ ~IsSuccess(q)) =>
        /\ outcome' # Pending
        /\ q' = q
        /\ frame'.pages = frame.pages

\* C13: the pages are queried in the order 0, 1, 2, ..., each once and
\* only below pagesTotal of page 0; the query of page i+1 starts only after
\* the query of page i ended in success; a returned list means all pages
\* were queried; no page is queried after a page has failed.
C13_SequentialPages ==
    /\ []PagesInOrder
    /\ [][NextPageAfterSuccess /\ NoPageAfterFailure]_vars

C13_Witness ==
    /\ TransactionsEnded
    /\ frame.pages = <<0, 1, 2>>
    /\ Len(frame.served) = 3
    /\ frame.served[1].pagesTotal = 3
    /\ outcome.kind = "return"

----------------------------------------------------------------------------
(* Claims about the utxo methods and the classmethods                      *)

\* the running method has ended
MethodEnded(method) == op = method /\ outcome # Pending

\* the query of a classmethod runs on a handler that accepts 400 only
\* and has the default number of tries
OwnHandlerUsed ==
    /\ \A i \in GetIndices(q) :
          q.events[i].response.status_code = HTTP_BAD_REQUEST
              => i = Len(q.events)
    /\ IsAcceptedErrorResult(q) => IsAccepted400(q)
    /\ Requests(q) <= DEFAULT_TRY_COUNT

\* C14: is_valid_wallet returns True exactly when its query ended in
\* success (200) and False otherwise, in particular on accepted error 400
\* and on total failure; it never raises.
C14_ValidIffSuccess ==
    MethodEnded("is_valid_wallet") =>
        /\ q.pc = "returned"
        /\ OwnHandlerUsed
        /\ outcome.kind = "return"
        /\ outcome.value = PyBool(IsSuccess(q))
        /\ IsAccepted400(q) => outcome.value = PyBool(FALSE)
        /\ IsTotalFailure(q) => outcome.value = PyBool(FALSE)

C14_Witness ==
    /\ MethodEnded("is_valid_wallet")
    /\ Requests(q) = 2
    /\ IsAccepted400(q)
    /\ api.returncode_list = {}
    /\ outcome = Return(PyBool(FALSE))

\* the payload of the query is a dict with the key
PayloadHas(st, key) ==
    /\ IsSuccess(st)
    /\ st.result.content.type = "dict"
    /\ key \in DOMAIN st.result.content

\* C15: get_address_unconfirmed and get_address_utxo return the list under
\* 'utxos' of the payload when their query ended in success, raise ValueError
\* on accepted error 400 and return None on total failure.
C15_UtxoListReturned ==
    (op \in UtxoLookups /\ outcome # Pending) =>
        /\ PayloadHas(q, "utxos") => outcome = Return(q.result.content.utxos)
        /\ IsAccepted400(q) =>
              (outcome.kind = "raise" /\ outcome.error = "ValueError")
        /\ IsTotalFailure(q) => outcome = Return(None)

\* C16: address_from_public_key returns the 'cashAddress' of the payload
\* when its query ended in success with a dict that has one, and returns
\* None otherwise (total failure, accepted error 400, payload without
\* 'cashAddress'); it never raises.
C16_AddressOrNone ==
    MethodEnded("address_from_public_key") =>
        /\ q.pc = "returned"
        /\ OwnHandlerUsed
        /\ outcome.kind = "return"
        /\ PayloadHas(q, "cashAddress") =>
              outcome.value = q.result.content.cashAddress
        /\ ~PayloadHas(q, "cashAddress") => outcome.value = None

C16_Witness ==
    /\ MethodEnded("address_from_public_key")
    /\ Requests(q) = 3
    /\ PayloadHas(q, "cashAddress")
    /\ outcome = Return(PyStr("a1"))

----------------------------------------------------------------------------
(* Claims about the ledger entry                                           *)

\* the call CBTransaction(...) has ended
Constructed == txn.pc \in {"built", "raised"}

\* the call returned an entry
Built == txn.pc = "built"

\* the amounts handed to the call are lists, as the claims' "inputs, outputs
\* and fees" are
ListArgs ==
    /\ is_iterable(txn.args.inputs)
    /\ is_iterable(txn.args.outputs)
    /\ is_iterable(txn.args.fees)

\* the threshold set last, the default if none was set
ThresholdSetLast ==
    IF txn.set = None THEN DEFAULT_CONFIRMATION_LIMIT ELSE txn.set.val

\* C17: every call CBTransaction(...) on lists of whole-satoshi amounts
\* builds a ledger entry, and on it paid and received are never both
\* nonzero, both are zero iff total_input = total_output, and balance is
\* -paid when outgoing, +received when incoming, 0 when neutral.
C17_PaidReceivedBalance ==
    (Constructed /\ ListArgs) =>
        /\ Built
        /\ LET e == txn.obj
           IN /\ ~(e.paid # 0 /\ e.received # 0)
              /\ (e.paid = 0 /\ e.received = 0)
                     <=> (e.total_input = e.total_output)
              /\ e.is_outgoing => e.balance = -e.paid
              /\ e.is_incoming => e.balance = e.received
              /\ (~e.is_outgoing /\ ~e.is_incoming) => e.balance = 0

\* C18: every call CBTransaction(...) on lists of amounts builds a ledger
\* entry whose totals are the sums of inputs, outputs and fees, which is
\* outgoing iff total_input > total_output (paid the difference, received
\* 0, fee total_fee), incoming iff total_input < total_output (received
\* the difference, paid 0, fee 0), and never both.
C18_DerivedFields ==
    (Constructed /\ ListArgs) =>
        /\ Built
        /\ LET e == txn.obj
           IN /\ e.total_input = SumSeq(txn.args.inputs.items)
              /\ e.total_output = SumSeq(txn.args.outputs.items)
              /\ e.total_fee = SumSeq(txn.args.fees.items)
              /\ e.is_outgoing <=> (e.total_input > e.total_output)
              /\ e.is_outgoing =>
                     /\ e.paid = e.total_input - e.total_output
                     /\ e.received = 0
                     /\ e.fee = e.total_fee
              /\ e.is_incoming <=> (e.total_input < e.total_output)
              /\ e.is_incoming =>
                     /\ e.received = e.total_output - e.total_input
                     /\ e.paid = 0
                     /\ e.fee = 0
              /\ ~(e.is_outgoing /\ e.is_incoming)

\* C19: every call CBTransaction(...) on inputs and outputs of equal sum
\* builds, whatever the list of fees, a neutral ledger entry: neither
\* incoming nor outgoing, with paid, received, fee and balance all 0.
C19_TieIsNeutral ==
    (/\ Constructed
     /\ ListArgs
     /\ SumSeq(txn.args.inputs.items) = SumSeq(txn.args.outputs.items)) =>
        /\ Built
        /\ LET e == txn.obj
           IN /\ ~e.is_incoming
              /\ ~e.is_outgoing
              /\ e.paid = 0
              /\ e.received = 0
              /\ e.fee = 0
              /\ e.balance = 0

\* C20: every call CBTransaction(...) on lists of amounts builds a ledger
\* entry on which, after any threshold changes, is_well_confirmed is true
\* iff confirmations >= the threshold set last (6 if never set).
C20_WellConfirmedFollowsThreshold ==
    (Constructed /\ ListArgs) =>
        /\ Built
        /\ is_well_confirmed(txn.obj)
               <=> (txn.obj.confirmations >= ThresholdSetLast)

\* the threshold the call was given, the default for an omitted argument
ThresholdArgument ==
    IF txn.args.confirmation_limit = None
    THEN DEFAULT_CONFIRMATION_LIMIT
    ELSE txn.args.confirmation_limit.val

\* C21: every call CBTransaction(...) with a non-negative confirmation
\* count builds a ledger entry on which is_unconfirmed holds iff
\* confirmations = 0 and is_confirmed iff confirmations > 0, exactly one of
\* the two holds, and with a threshold of at least 1 is_well_confirmed
\* implies is_confirmed.
C21_ConfirmationPredicates ==
    (Constructed /\ ListArgs /\ txn.args.confirmations >= 0) =>
        /\ Built
        /\ LET e == txn.obj
           IN /\ is_unconfirmed(e) <=> (txn.args.confirmations = 0)
              /\ is_confirmed(e) <=> (txn.args.confirmations > 0)
              /\ is_unconfirmed(e) # is_confirmed(e)
              /\ (e.confirmation_limit >= 1 /\ is_well_confirmed(e))
                     => is_confirmed(e)

\* C22: every call CBTransaction(...) on lists of amounts builds a ledger
\* entry whose derived fields (total_input, total_output, paid, received,
\* fee, balance, is_incoming, is_outgoing) are, after any sequence of
\* operations on it, the values computed at construction from the
\* arguments.
C22_DerivedFieldsKept ==
    (Constructed /\ ListArgs) =>
        /\ Built
        /\ LET e == txn.obj
               d == derived_fields(SumSeq(txn.args.inputs.items),
                                   SumSeq(txn.args.outputs.items),
                                   SumSeq(txn.args.fees.items))
           IN /\ e.total_input = SumSeq(txn.args.inputs.items)
              /\ e.total_output = SumSeq(txn.args.outputs.items)
              /\ e.paid = d.paid
              /\ e.received = d.received
              /\ e.fee = d.fee
              /\ e.balance = d.balance
              /\ e.is_incoming = d.is_incoming
              /\ e.is_outgoing = d.is_outgoing

\* C26: every call CBTransaction(..., confirmation_limit = k) on lists of
\* amounts builds a ledger entry whose confirmation_limit is k right after
\* construction (6 when the argument is omitted) and whose
\* is_well_confirmed is true iff confirmations >= k.
C26_ThresholdArgumentUsed ==
    (Constructed /\ ListArgs /\ txn.set = None) =>
        /\ Built
        /\ txn.obj.confirmation_limit = ThresholdArgument
        /\ is_well_confirmed(txn.obj)
               <=> (txn.args.confirmations >= ThresholdArgument)

\* C27: every call CBTransaction(...) completes without error and builds a
\* ledger entry whose accessors return the values passed, an amount given
\* as a solo number being held as a one-element list.
C27_ConstructionCompletes ==
    Constructed =>
        /\ Built
        /\ LET e == txn.obj
           IN /\ e.tx = txn.args.tx
              /\ e.block_height = txn.args.block_height
              /\ e.transaction_time = txn.args.transaction_time
              /\ e.block_time = txn.args.block_time
              /\ e.first_seen_time = txn.args.first_seen_time
              /\ e.confirmations = txn.args.confirmations
              /\ e.inputs = as_list(txn.args.inputs)
              /\ e.outputs = as_list(txn.args.outputs)
              /\ e.fees = as_list(txn.args.fees)

----------------------------------------------------------------------------
(* WalletContainer, TransactionContainer, UtxoContainer: subclasses of     *)
(* list. An item is a record tagged with its class; only the fields the    *)
(* containers read (address, tx) and one more to tell two entries of the   *)
(* same key apart are kept.                                                *)

\* a CBUtxo: CBUtxo.__init__ stores its arguments
CBUtxo(tx, amount) == [type |-> "CBUtxo", tx |-> tx, amount |-> amount]

\* a Wallet after its constructor returned
WalletItem(address, displayed_name) ==
    [type |-> "Wallet", address |-> address,
     displayed_name |-> displayed_name]

\* the class a container tests its items against
item_class(cls) ==
    CASE cls = "WalletContainer" -> "Wallet"
      [] cls = "TransactionContainer" -> "CBTransaction"
      [] cls = "UtxoContainer" -> "CBUtxo"

\* isinstance(item, <the container's item class>)
isinstance_item(cls, item) == item.type = item_class(cls)

\* hasattr(item, "address") / hasattr(item, "tx")
has_key_attr(cls, item) ==
    IF cls = "WalletContainer"
    THEN item.type = "Wallet"
    ELSE item.type \in {"CBTransaction", "CBUtxo"}

\* item.address / item.tx
key_of(cls, item) ==
    IF cls = "WalletContainer" THEN item.address ELSE item.tx

\* contains_address / contains_tx: walks the list in order and reads the key
\* attribute of each item until one matches; an item without the attribute
\* met on the way raises AttributeError
RECURSIVE contains_key(_, _, _)
contains_key(cls, items, k) ==
    IF items = <<>> THEN "False"
    ELSE IF ~has_key_attr(cls, Head(items)) THEN "AttributeError"
    ELSE IF key_of(cls, Head(items)) = k THEN "True"
    ELSE contains_key(cls, Tail(items), k)

\* the for loop of __init__ that tests every item of the initial list
all_of_class(cls, items) ==
    \A i \in 1 .. Len(items) : isinstance_item(cls, items[i])

\* a container after its constructor, or the exception the constructor
\* raised. WalletContainer.__init__ names its loop variable `Wallet` and
\* tests `wallet`, a name bound nowhere: the first pass of the loop raises
\* NameError.
container_init(cls, initial) ==
    LET made(items) == [pc |-> "live", cls |-> cls, items |-> items,
                        last |-> [op |-> "__init__", item |-> initial,
                                  error |-> "none"]]
        failed(error) == [pc |-> "raised", cls |-> cls, items |-> <<>>,
                          last |-> [op |-> "__init__", item |-> initial,
                                    error |-> error]]
    IN IF initial = None THEN made(<<>>)
       ELSE IF cls = "WalletContainer"
            THEN IF initial.items = <<>> THEN made(<<>>)
                 ELSE failed("NameError")
            ELSE IF all_of_class(cls, initial.items)
                 THEN made(initial.items)
                 ELSE made(<<>>)

\* append without the test for the key
container_append_unchecked(self, item) ==
    [self EXCEPT !.items = Append(@, item),
                 !.last = [op |-> "append", item |-> item,
                           error |-> "none"]]

\* append
container_append(self, item) ==
    LET ended(items, error) ==
            [self EXCEPT !.items = items,
                         !.last = [op |-> "append", item |-> item,
                                   error |-> error]]
    IN IF isinstance_item(self.cls, item)
       THEN LET found == contains_key(self.cls, self.items,
                                      key_of(self.cls, item))
            IN CASE found = "False" -> ended(Append(self.items, item), "none")
                 [] found = "True" -> ended(self.items, "none")
                 [] OTHER -> ended(self.items, found)
       ELSE ended(self.items, "TypeError")

\* append_: list.append without any test
container_append_(self, item) ==
    [self EXCEPT !.items = Append(@, item),
                 !.last = [op |-> "append_", item |-> item,
                           error |-> "none"]]

----------------------------------------------------------------------------
(* Specification of the containers                                         *)

\* the ledger entries that calls of CBTransaction(...) return
LedgerEntries ==
    {r.obj : r \in {c \in {CBTransaction__init__(a) : a \in TxnArgs} :
                        c.pc = "built"}}

\* the entries of a container's own class
EntriesOf(cls) ==
    CASE cls = "WalletContainer" ->
             {WalletItem(k, n) : k \in {"k1", "k2"}, n \in {"n1", "n2"}}
      [] cls = "TransactionContainer" -> LedgerEntries
      [] cls = "UtxoContainer" ->
             {CBUtxo(k, a) : k \in {"k1", "k2"}, a \in {1, 2}}

\* what a caller may hand to a container: entries of its class and items
\* of another type
ItemsOf(cls) ==
    EntriesOf(cls)
    \cup {PyInt(5)}
    \cup (IF cls = "UtxoContainer" THEN {WalletItem("k1", "n1")}
          ELSE {CBUtxo("k1", 1)})

RECURSIVE ItemSeqs(_, _)
ItemSeqs(cls, n) ==
    IF n = 0 THEN {<<>>}
    ELSE ItemSeqs(cls, n - 1)
         \cup {Append(seq, x) : seq \in ItemSeqs(cls, n - 1),
                                x \in ItemsOf(cls)}

\* the argument of a container's constructor: omitted, or a list
InitialLists(cls) ==
    {None} \cup {PyList(seq) : seq \in ItemSeqs(cls, MaxInitial)}

ContainerInit ==
    /\ api = BitcoinAPI__init__(None, None)
    /\ op = "idle"
    /\ q = query_idle
    /\ q2 = query_idle
    /\ frame = frame_idle
    /\ outcome = Pending
    /\ txn = txn_none
    /\ wallet = absent
    /\ robj = absent
    /\ doc = absent
    /\ handlers = absent
    /\ \E cls \in {"WalletContainer", "TransactionContainer",
                  "UtxoContainer"} : \E initial \in InitialLists(cls) :
          cont = [pc |-> "call", cls |-> cls, items |-> <<>>,
                  last |-> [op |-> "none", item |-> initial,
                            error |-> "none"]]

\* WalletContainer(initial), TransactionContainer(initial), ...
ContainerConstruct ==
    /\ cont.pc = "call"
    /\ cont' = container_init(cont.cls, cont.last.item)
    /\ UNCHANGED <<api, op, q, q2, frame, outcome, txn, wallet, robj, doc,
                   handlers>>

\* container.append(item)
ContainerAppend ==
    /\ cont.pc = "live"
    /\ Len(cont.items) < MaxItems
    /\ \E item \in ItemsOf(cont.cls) : cont' = container_append(cont, item)
    /\ UNCHANGED <<api, op, q, q2, frame, outcome, txn, wallet, robj, doc,
                   handlers>>

\* container.append_(item), of the two containers that define it
ContainerAppend_ ==
    /\ cont.pc = "live"
    /\ cont.cls \in {"TransactionContainer", "UtxoContainer"}
    /\ Len(cont.items) < MaxItems
    /\ \E item \in ItemsOf(cont.cls) : cont' = container_append_(cont, item)
    /\ UNCHANGED <<api, op, q, q2, frame, outcome, txn, wallet, robj, doc,
                   handlers>>

ContainerNext == ContainerConstruct \/ ContainerAppend \/ ContainerAppend_

ContainerSpec == ContainerInit /\ [][ContainerNext]_vars

----------------------------------------------------------------------------
(* Claims about the containers                                             *)

\* an entry with the key k is in the list
HoldsKey(cls, items, k) ==
    \E i \in 1 .. Len(items) :
        has_key_attr(cls, items[i]) /\ key_of(cls, items[i]) = k

\* this step is a call of append with an entry of the container's class
AppendsEntry ==
    /\ cont.pc = "live"
    /\ cont'.last.op = "append"
    /\ isinstance_item(cont.cls, cont'.last.item)

\* what the claim requires of such a step
AppendDeduplicates ==
    LET item == cont'.last.item
    IN /\ cont'.last.error = "none"
       /\ IF HoldsKey(cont.cls, cont.items, key_of(cont.cls, item))
          THEN cont'.items = cont.items
          ELSE cont'.items = Append(cont.items, item)

\* C23 as stated: in every state of a container, appending an entry whose
\* key is held already raises nothing and leaves the list as it is, and
\* appending an entry with a new key adds it at the end.
C23_DuplicateAppendIsNoOp_Original ==
    [][AppendsEntry => AppendDeduplicates]_vars

\* C23 amended: while every item of the container is an entry of the
\* container's class, appending an entry whose key is held already raises
\* nothing and leaves length, order and the entry inserted first as they
\* are, and appending an entry with a new key adds it at the end.
C23_DuplicateAppendIsNoOp ==
    [][(AppendsEntry /\ all_of_class(cont.cls, cont.items))
           => AppendDeduplicates]_vars

\* an append of a second entry with a held key has left the list alone
C23_Witness ==
    /\ cont.pc = "live"
    /\ cont.last.op = "append"
    /\ cont.last.error = "none"
    /\ isinstance_item(cont.cls, cont.last.item)
    /\ all_of_class(cont.cls, cont.items)
    /\ Len(cont.items) = 2
    /\ HoldsKey(cont.cls, cont.items, key_of(cont.cls, cont.last.item))
    /\ \A i \in 1 .. Len(cont.items) : cont.items[i] # cont.last.item

\* C24: in every state of a container no two entries have the same key.
C24_NoDuplicateKeys ==
    cont.pc = "live" =>
        \A i, j \in 1 .. Len(cont.items) :
            (/\ i < j
             /\ has_key_attr(cont.cls, cont.items[i])
             /\ has_key_attr(cont.cls, cont.items[j]))
                => key_of(cont.cls, cont.items[i])
                       # key_of(cont.cls, cont.items[j])

\* some item of the list is not of the container's class
HasForeignItem(cls, initial) ==
    /\ initial # None
    /\ ~all_of_class(cls, initial.items)

\* C29: appending an item of the wrong type raises TypeError and leaves the
\* list as it is, and constructing a container from a list with an item of
\* the wrong type yields an empty container.
C29_WrongTypeRejected ==
    [][/\ (/\ cont.pc = "live"
           /\ cont'.last.op = "append"
           /\ ~isinstance_item(cont.cls, cont'.last.item))
              => (/\ cont'.last.error = "TypeError"
                  /\ cont'.items = cont.items)
       /\ (/\ cont.pc = "call"
           /\ cont'.last.op = "__init__"
           /\ HasForeignItem(cont.cls, cont.last.item))
              => (/\ cont'.pc = "live"
                  /\ cont'.items = <<>>)]_vars

----------------------------------------------------------------------------
(* Wallet. self is the record of the private fields; error is how the call *)
(* that produced the record ended.                                         *)

\* has_state(status_code, target_code)
has_state(status_code, target_code) ==
    (status_code \div target_code) % 2 = 1

\* the call ended with an exception, the fields are as they were
wallet_raise(self, error) == [self EXCEPT !.error = error]

\* state_add
state_add(self, stateid) ==
    IF stateid \in {WALLET_VALID, WALLET_EDITABLE}
    THEN IF ~has_state(self.state, stateid)
         THEN [self EXCEPT !.state = @ + stateid]
         ELSE self
    ELSE wallet_raise(self, "ValueError")

\* state_delete
state_delete(self, stateid) ==
    IF stateid \in {WALLET_VALID, WALLET_EDITABLE}
    THEN IF has_state(self.state, stateid)
         THEN [self EXCEPT !.state = @ - stateid]
         ELSE self
    ELSE wallet_raise(self, "ValueError")

\* state_toggle
state_toggle(self, stateid) ==
    IF stateid \in {WALLET_VALID, WALLET_EDITABLE}
    THEN IF has_state(self.state, stateid)
         THEN [self EXCEPT !.state = @ - stateid]
         ELSE [self EXCEPT !.state = @ + stateid]
    ELSE wallet_raise(self, "ValueError")

\* variant: the address may be overwritten while the wallet is editable
address_setter_rewritable(self, address, result) ==
    IF has_state(self.state, WALLET_EDITABLE)
    THEN [self EXCEPT !.address = address]
    ELSE wallet_raise(self, "PermissionError")

\* address setter; result is what the query of is_valid_wallet returned
address_setter(self, address, result) ==
    IF has_state(self.state, WALLET_EDITABLE)
    THEN IF self.address = None
         THEN LET set == [self EXCEPT !.address = address]
              IN IF is_valid_wallet(result).value.val
                 THEN state_add(set, WALLET_VALID)
                 ELSE set
         ELSE wallet_raise(self, "PermissionError")
    ELSE wallet_raise(self, "PermissionError")

\* displayed_name setter
displayed_name_setter(self, name) ==
    IF has_state(self.state, WALLET_EDITABLE)
    THEN [self EXCEPT !.displayed_name = name]
    ELSE wallet_raise(self, "PermissionError")

\* variant: set_detail without the test of the state
set_detail_unguarded(self, key, value) ==
    [self EXCEPT !.details = (key :> value) @@ @]

\* set_detail
set_detail(self, key, value) ==
    IF has_state(self.state, WALLET_EDITABLE)
    THEN [self EXCEPT !.details = (key :> value) @@ @]
    ELSE wallet_raise(self, "PermissionError")

\* `for key, value in details: self.set_detail(key, value)`: an item that
\* is not a pair (a key of a dict, which is what iterating a dict gives)
\* raises ValueError
RECURSIVE set_details(_, _)
set_details(self, items) ==
    IF items = <<>> \/ self.error # "none" THEN self
    ELSE IF Head(items).type # "tuple" THEN wallet_raise(self, "ValueError")
    ELSE set_details(set_detail(self, Head(items).key, Head(items).value),
                     Tail(items))

\* Wallet.__init__
Wallet__init__(address, displayed_name, details, result) ==
    LET fresh == [address |-> None, displayed_name |-> None,
                  details |-> <<>>, state |-> WALLET_INSTANTIATED,
                  error |-> "none"]
        s1 == state_add(fresh, WALLET_EDITABLE)
        s2 == address_setter(s1, address, result)
        s3 == displayed_name_setter(s2, displayed_name)
        s4 == IF details # None THEN set_details(s3, details.items) ELSE s3
    IN IF s4.error # "none" THEN s4 ELSE state_delete(s4, WALLET_EDITABLE)

----------------------------------------------------------------------------
(* CBDocument                                                              *)

\* is_editable_(activity_name) with drop_error left at True
is_editable_(self) == ~(self.created = None \/ self.closed # None)

\* owner setter
owner_setter(self, newowner) ==
    IF ~is_editable_(self) THEN [self EXCEPT !.error = "PermissionError"]
    ELSE IF self.owner = None THEN [self EXCEPT !.owner = newowner]
    ELSE [self EXCEPT !.error = "PermissionError"]

\* id setter
id_setter(self, newid) ==
    IF ~is_editable_(self) THEN [self EXCEPT !.error = "PermissionError"]
    ELSE IF self.id = None THEN [self EXCEPT !.id = newid]
    ELSE [self EXCEPT !.error = "PermissionError"]

\* CBDocument.__init__ up to `self.id = id`: the fields start as None and
\* owner is assigned first, while created is still None
CBDocument__init__(owner, id) ==
    LET fresh == [owner |-> None, id |-> None, created |-> None,
                  closed |-> None, expires |-> None, certified |-> FALSE,
                  anonymous |-> FALSE, error |-> "none"]
        s1 == owner_setter(fresh, owner)
    IN IF s1.error # "none" THEN s1 ELSE id_setter(s1, id)

----------------------------------------------------------------------------
(* Specification of the objects with guarded setters: one Wallet, one      *)
(* ResponseObject or one call of CBDocument(...) per behaviour             *)

\* the details argument: omitted, a list of pairs, or a dict as documented
DetailsArgs ==
    {None,
     PyList(<<[type |-> "tuple", key |-> "d1", value |-> "v1"]>>),
     PyList(<<PyStr("detail")>>)}

Addresses == {None, PyStr("a1"), PyStr("a2")}

Names == {None, PyStr("n1"), PyStr("n2")}

\* what the query of is_valid_wallet returns
ValidationResults ==
    {None, ResponseObject(PyInt(HTTP_OK), None),
     ResponseObject(PyInt(HTTP_BAD_REQUEST), None)}

\* no exception is pending when a method is entered
entered(self) == [self EXCEPT !.error = "none"]

\* the object as the caller sees it once the call has ended
wallet_after(w, self, opname, added) ==
    [w EXCEPT !.self = entered(self),
              !.last = [op |-> opname, error |-> self.error],
              !.added = added]

ObjectInit ==
    /\ api = BitcoinAPI__init__(None, None)
    /\ op = "idle"
    /\ q = query_idle
    /\ q2 = query_idle
    /\ frame = frame_idle
    /\ outcome = Pending
    /\ txn = txn_none
    /\ cont = absent
    /\ handlers = absent
    /\ \/ /\ \E a \in Addresses \ {PyStr("a2")} :
             \E n \in Names \ {PyStr("n2")} : \E d \in DetailsArgs :
                wallet = [pc |-> "call",
                          args |-> [address |-> a, displayed_name |-> n,
                                    details |-> d],
                          self |-> None,
                          last |-> [op |-> "none", error |-> "none"],
                          added |-> FALSE, toggled |-> FALSE,
                          valid |-> FALSE]
          /\ robj = absent
          /\ doc = absent
       \/ /\ wallet = absent
          /\ \E c \in {None, PyInt(HTTP_OK), PyInt(HTTP_BAD_REQUEST)} :
             \E b \in {None, PyStr("c1"), PyStr("c2")} :
                robj = [pc |-> "call", args |-> [code |-> c, content |-> b],
                        self |-> None,
                        last |-> [op |-> "none", error |-> "none"]]
          /\ doc = absent
       \/ /\ wallet = absent
          /\ robj = absent
          /\ \E o \in {None, PyStr("o1")} : \E i \in {None, PyStr("i1")} :
                doc = [pc |-> "call", args |-> [owner |-> o, id |-> i],
                       self |-> None,
                       last |-> [op |-> "none", error |-> "none"]]

\* Wallet(address, displayed_name, details)
WalletConstruct ==
    /\ wallet.pc = "call"
    /\ \E result \in ValidationResults :
          LET self == Wallet__init__(wallet.args.address,
                                     wallet.args.displayed_name,
                                     wallet.args.details, result)
          IN wallet' = [pc |-> IF self.error = "none" THEN "live"
                               ELSE "raised",
                        args |-> wallet.args,
                        self |-> entered(self),
                        last |-> [op |-> "__init__", error |-> self.error],
                        added |-> FALSE, toggled |-> FALSE,
                        valid |-> is_valid_wallet(result).value.val]
    /\ UNCHANGED <<api, op, q, q2, frame, outcome, txn, robj, doc, cont,
                   handlers>>

\* wallet.address = address
WalletSetAddress ==
    /\ wallet.pc = "live"
    /\ \E address \in Addresses : \E result \in ValidationResults :
          wallet' = wallet_after(wallet,
                                 address_setter(wallet.self, address, result),
                                 "address", wallet.added)
    /\ UNCHANGED <<api, op, q, q2, frame, outcome, txn, robj, doc, cont,
                   handlers>>

\* wallet.displayed_name = name
WalletSetDisplayedName ==
    /\ wallet.pc = "live"
    /\ \E name \in Names :
          wallet' = wallet_after(wallet,
                                 displayed_name_setter(wallet.self, name),
                                 "displayed_name", wallet.added)
    /\ UNCHANGED <<api, op, q, q2, frame, outcome, txn, robj, doc, cont,
                   handlers>>

\* wallet.set_detail(key, value)
WalletSetDetail ==
    /\ wallet.pc = "live"
    /\ \E value \in {"v1", "v2"} :
          wallet' = wallet_after(wallet,
                                 set_detail(wallet.self, "d1", value),
                                 "set_detail", wallet.added)
    /\ UNCHANGED <<api, op, q, q2, frame, outcome, txn, robj, doc, cont,
                   handlers>>

\* wallet.state_add(stateid); added logs a call with WALLET_EDITABLE
WalletStateAdd ==
    /\ wallet.pc = "live"
    /\ \E stateid \in {WALLET_VALID, WALLET_EDITABLE, 4} :
          wallet' = wallet_after(wallet, state_add(wallet.self, stateid),
                                 "state_add",
                                 wallet.added \/ stateid = WALLET_EDITABLE)
    /\ UNCHANGED <<api, op, q, q2, frame, outcome, txn, robj, doc, cont,
                   handlers>>

\* wallet.state_delete(stateid)
WalletStateDelete ==
    /\ wallet.pc = "live"
    /\ \E stateid \in {WALLET_VALID, WALLET_EDITABLE, 4} :
          wallet' = wallet_after(wallet, state_delete(wallet.self, stateid),
                                 "state_delete", wallet.added)
    /\ UNCHANGED <<api, op, q, q2, frame, outcome, txn, robj, doc, cont,
                   handlers>>

\* wallet.state_toggle(stateid); toggled logs a call with WALLET_EDITABLE
WalletStateToggle ==
    /\ wallet.pc = "live"
    /\ \E stateid \in {WALLET_VALID, WALLET_EDITABLE, 4} :
          wallet' = [wallet_after(wallet, state_toggle(wallet.self, stateid),
                                  "state_toggle", wallet.added)
                        EXCEPT !.toggled = @ \/ stateid = WALLET_EDITABLE]
    /\ UNCHANGED <<api, op, q, q2, frame, outcome, txn, robj, doc, cont,
                   handlers>>

\* ResponseObject(code, content)
ResponseConstruct ==
    /\ robj.pc = "call"
    /\ robj' = [robj EXCEPT
                   !.pc = "live",
                   !.self = ResponseObject(robj.args.code, robj.args.content),
                   !.last = [op |-> "__init__", error |-> "none"]]
    /\ UNCHANGED <<api, op, q, q2, frame, outcome, txn, wallet, doc, cont,
                   handlers>>

\* response.code = newcode
ResponseSetCode ==
    /\ robj.pc = "live"
    /\ \E newcode \in {None, PyInt(HTTP_OK), PyInt(HTTP_BAD_REQUEST)} :
          LET self == ResponseObject_set_code(robj.self, newcode)
          IN robj' = [robj EXCEPT
                         !.self = entered(self),
                         !.last = [op |-> "code", error |-> self.error]]
    /\ UNCHANGED <<api, op, q, q2, frame, outcome, txn, wallet, doc, cont,
                   handlers>>

\* response.content = newcontent
ResponseSetContent ==
    /\ robj.pc = "live"
    /\ \E newcontent \in {None, PyStr("c1"), PyStr("c2")} :
          LET self == ResponseObject_set_content(robj.self, newcontent)
          IN robj' = [robj EXCEPT
                         !.self = entered(self),
                         !.last = [op |-> "content", error |-> self.error]]
    /\ UNCHANGED <<api, op, q, q2, frame, outcome, txn, wallet, doc, cont,
                   handlers>>

\* CBDocument(owner, id)
DocumentConstruct ==
    /\ doc.pc = "call"
    /\ LET self == CBDocument__init__(doc.args.owner, doc.args.id)
       IN doc' = [doc EXCEPT
                     !.pc = IF self.error = "none" THEN "live" ELSE "raised",
                     !.self = entered(self),
                     !.last = [op |-> "__init__", error |-> self.error]]
    /\ UNCHANGED <<api, op, q, q2, frame, outcome, txn, wallet, robj, cont,
                   handlers>>

ObjectNext ==
    \/ WalletConstruct
    \/ WalletSetAddress
    \/ WalletSetDisplayedName
    \/ WalletSetDetail
    \/ WalletStateAdd
    \/ WalletStateDelete
    \/ WalletStateToggle
    \/ ResponseConstruct
    \/ ResponseSetCode
    \/ ResponseSetContent
    \/ DocumentConstruct

ObjectSpec == ObjectInit /\ [][ObjectNext]_vars

----------------------------------------------------------------------------
(* Claims about the guarded setters                                        *)

\* a step from a Wallet whose address is set keeps the address, and if the
\* step is an assignment to it, the assignment raised PermissionError
WalletAddressKept ==
    (wallet.pc = "live" /\ wallet.self.address # None) =>
        /\ wallet'.self.address = wallet.self.address
        /\ wallet'.last.op = "address"
               => wallet'.last.error = "PermissionError"

\* the same of ResponseObject.code
ResponseCodeKept ==
    (robj.pc = "live" /\ robj.self.code # None) =>
        /\ robj'.self.code = robj.self.code
        /\ robj'.last.op = "code" => robj'.last.error = "PermissionError"

\* the same of ResponseObject.content
ResponseContentKept ==
    (robj.pc = "live" /\ robj.self.content # None) =>
        /\ robj'.self.content = robj.self.content
        /\ robj'.last.op = "content" => robj'.last.error = "PermissionError"

\* the same of CBDocument.id and CBDocument.owner
DocumentIdOwnerKept ==
    /\ (doc.pc = "live" /\ doc.self.id # None) =>
           /\ doc'.self.id = doc.self.id
           /\ doc'.last.op = "id" => doc'.last.error = "PermissionError"
    /\ (doc.pc = "live" /\ doc.self.owner # None) =>
           /\ doc'.self.owner = doc.self.owner
           /\ doc'.last.op = "owner" => doc'.last.error = "PermissionError"

\* C25: once Wallet.address, ResponseObject.code, ResponseObject.content,
\* CBDocument.id or CBDocument.owner holds a value other than None, every
\* later assignment to it fails with PermissionError and no operation
\* changes the stored value, state_add(WALLET_EDITABLE) included.
C25_WriteOnce ==
    [][/\ WalletAddressKept
       /\ ResponseCodeKept
       /\ ResponseContentKept
       /\ DocumentIdOwnerKept]_vars

\* an assignment to the address of a wallet that state_add made editable
\* was refused
C25_Witness ==
    /\ wallet.pc = "live"
    /\ wallet.added
    /\ has_state(wallet.self.state, WALLET_EDITABLE)
    /\ wallet.self.address # None
    /\ wallet.last = [op |-> "address", error |-> "PermissionError"]

\* the state of a Wallet when its constructor returns
ConstructorReturn ==
    (wallet.pc = "live" /\ wallet.last.op = "__init__") =>
        /\ ~has_state(wallet.self.state, WALLET_EDITABLE)
        /\ has_state(wallet.self.state, WALLET_VALID) <=> wallet.valid

\* this step is a call of one of the three guarded setters
SetterCall ==
    /\ wallet.pc = "live"
    /\ wallet'.last.op \in {"address", "displayed_name", "set_detail"}

\* the call failed with PermissionError and changed no field
SetterRefused ==
    /\ wallet'.last.error = "PermissionError"
    /\ wallet'.self = wallet.self

\* C28 as stated: a Wallet's state holds no WALLET_EDITABLE when the
\* constructor returns and WALLET_VALID iff the validation query returned
\* true, and until state_add(WALLET_EDITABLE) is called every call of
\* set_detail, the displayed_name setter and the address setter fails with
\* PermissionError and changes nothing.
C28_NotEditableAfterConstruction_Original ==
    /\ []ConstructorReturn
    /\ [][(SetterCall /\ ~wallet'.added) => SetterRefused]_vars

\* C28 amended: the same, until state_add(WALLET_EDITABLE) or
\* state_toggle(WALLET_EDITABLE) is called.
C28_NotEditableAfterConstruction ==
    /\ []ConstructorReturn
    /\ [][(SetterCall /\ ~wallet'.added /\ ~wallet'.toggled)
              => SetterRefused]_vars

\* set_detail was refused on a wallet nobody made editable
C28_Witness ==
    /\ wallet.pc = "live"
    /\ ~wallet.added
    /\ ~wallet.toggled
    /\ wallet.last = [op |-> "set_detail", error |-> "PermissionError"]

----------------------------------------------------------------------------
(* Two APIHandler instances side by side. A Python list is an object: heap *)
(* maps the identity of a list to its contents, and the returncode_list    *)
(* field of a handler holds an identity. Identity 0 is the list that the   *)
(* default `returncode_list=[]` of APIHandler.__init__ made when the       *)
(* function was defined; identity i is a list the caller made for          *)
(* handler i.                                                              *)

DefaultList == 0

HandlerIds == {1, 2}

\* handler i as query_ reads it: returncode_list dereferenced
seen(hs, i) ==
    [hs.h[i] EXCEPT !.returncode_list = hs.heap[hs.h[i].returncode_list]]

\* query_ run to its end against the answers the server gives in turn
RECURSIVE run_query(_, _, _)
run_query(self, st, answers) ==
    IF st.pc # "loop" \/ answers = <<>> THEN st
    ELSE run_query(self, query_pass(self, st, Head(answers)), Tail(answers))

\* what query gives: how it ended and the value it returned
query_outcome(self, answers) ==
    LET st == run_query(self, query_enter, answers)
    IN [pc |-> st.pc, result |-> st.result, error |-> st.error]

\* one answer of the server
ServerAnswers ==
    {TransportError, HttpResponse(HTTP_OK, JsonBody(PageDict(1, <<"t1">>))),
     HttpResponse(HTTP_BAD_REQUEST, BadBody), HttpResponse(404, BadBody)}

RECURSIVE AnswerSeqs(_)
AnswerSeqs(n) ==
    IF n = 0 THEN {<<>>}
    ELSE {Append(seq, a) : seq \in AnswerSeqs(n - 1), a \in ServerAnswers}

\* a server behaviour: its answers to as many requests as a query makes
ServerBehaviours == AnswerSeqs(MaxHandlerTryCount)

\* APIHandler(api_root, try_count, try_delay[, returncode_list]): the list
\* argument, or the default list, is stored as it is
HandlersInit ==
    /\ api = BitcoinAPI__init__(None, None)
    /\ op = "idle"
    /\ q = query_idle
    /\ q2 = query_idle
    /\ frame = frame_idle
    /\ outcome = Pending
    /\ txn = txn_none
    /\ wallet = absent
    /\ robj = absent
    /\ doc = absent
    /\ cont = absent
    /\ \E given \in [HandlerIds -> BOOLEAN] :
       \E lists \in [HandlerIds -> {{}, {HTTP_BAD_REQUEST}}] :
          handlers =
              [pc |-> "live",
               heap |-> [l \in {DefaultList} \cup HandlerIds |->
                             IF l = DefaultList THEN {} ELSE lists[l]],
               h |-> [i \in HandlerIds |->
                          APIHandler__init__("APIHandler",
                              PyInt(MaxHandlerTryCount), PyInt(0),
                              IF given[i] THEN i ELSE DefaultList)],
               last |-> [op |-> "__init__", who |-> 0, result |-> None]]

\* handler.returncode_list.append(code)
HandlerAddCode ==
    /\ handlers.pc = "live"
    /\ \E i \in HandlerIds : \E code \in {HTTP_BAD_REQUEST, 404} :
          handlers' =
              [handlers EXCEPT
                  !.heap[handlers.h[i].returncode_list] = @ \cup {code},
                  !.last = [op |-> "append", who |-> i, result |-> None]]
    /\ UNCHANGED <<api, op, q, q2, frame, outcome, txn, wallet, robj, doc,
                   cont>>

\* handler.returncode_list = [...], a list the caller made
HandlerSetList ==
    /\ handlers.pc = "live"
    /\ \E i \in HandlerIds : \E newlist \in {{}, {HTTP_BAD_REQUEST}} :
          handlers' =
              [handlers EXCEPT
                  !.heap[i] = newlist,
                  !.h[i] = returncode_list_setter(@, i),
                  !.last = [op |-> "set", who |-> i, result |-> None]]
    /\ UNCHANGED <<api, op, q, q2, frame, outcome, txn, wallet, robj, doc,
                   cont>>

\* handler.query(paramlist) against one server behaviour
HandlerQuery ==
    /\ handlers.pc = "live"
    /\ \E i \in HandlerIds : \E answers \in ServerBehaviours :
          handlers' =
              [handlers EXCEPT
                  !.last = [op |-> "query", who |-> i,
                            result |-> query_outcome(seen(handlers, i),
                                                     answers).result]]
    /\ UNCHANGED <<api, op, q, q2, frame, outcome, txn, wallet, robj, doc,
                   cont>>

HandlersNext == HandlerAddCode \/ HandlerSetList \/ HandlerQuery

HandlersSpec == HandlersInit /\ [][HandlersNext]_vars

----------------------------------------------------------------------------
(* Claim about the two handlers                                            *)

\* this step changed the accepted-error configuration of handler i
Reconfigures(i) ==
    /\ handlers.pc = "live"
    /\ handlers'.last.op \in {"append", "set"}
    /\ handlers'.last.who = i

\* C30: adding a status code to the returncode_list of one handler never
\* changes the outcome that the other handler's query gives for the same
\* server behaviour, handlers created without a returncode_list argument
\* included.
C30_HandlersIndependent ==
    [][\A i \in HandlerIds : \A j \in HandlerIds \ {i} :
           Reconfigures(i) =>
               \A answers \in ServerBehaviours :
                   query_outcome(seen(handlers', j), answers)
                       = query_outcome(seen(handlers, j), answers)]_vars

====
